---------------------------- MODULE Spec2Model ----------------------------
(***************************************************************************)
(* A model of the cpp-json library (src/json.hpp, src/json.cpp): the node  *)
(* heap behind std::shared_ptr<Node>, the recursive-descent parser with    *)
(* its shared cursor, the compact serializer, and the Json / Json::View    *)
(* navigation and typed access operations.                                 *)
(*                                                                         *)
(* Text is a sequence of one-character strings.  A node is a record        *)
(*   [type, value, children]                                               *)
(* where children is a map key -> node id for an Object (std::map), a      *)
(* sequence of node ids for a List (std::vector) and <<>> for a leaf.      *)
(* A node id is an index into heap; two handles holding the same id are    *)
(* two shared_ptr copies of the same node.                                 *)
(***************************************************************************)
EXTENDS Integers, Sequences, FiniteSets, TLC

VARIABLES
    heap,    \* the nodes alive, by id
    docs,    \* the Json handles of the program: docs[d] is Json::root
    views,   \* the View variables of the program: [node, path] or NoView
    ret,     \* the outcome of the last operation
    input    \* the text handed to the parser, with what its author wrote

vars == <<heap, docs, views, ret, input>>

-----------------------------------------------------------------------------
(* Characters *)

Str(s) == [i \in 1..Len(s) |-> SubSeq(s, i, i)]

NUL == "NUL"
Quote == "\""

\* The characters of the model in ASCII order (std::string compares bytes).
Chars == <<NUL, "\t", "\n", " ", Quote, ",", "-", ".">>
         \o Str("0123456789") \o <<":">>
         \o Str("ABCDEFGHIJKLMNOPQRSTUVWXYZ") \o <<"[", "]">>
         \o Str("abcdefghijklmnopqrstuvwxyz") \o <<"{", "}">>

Ord(ch) == CHOOSE i \in 1..Len(Chars) : Chars[i] = ch

Range(s) == {s[i] : i \in DOMAIN s}

Min(a, b) == IF a < b THEN a ELSE b
Max(a, b) == IF a > b THEN a ELSE b

\* std::string operator< : lexicographic on bytes.
RECURSIVE StringLess(_, _)
StringLess(a, b) ==
    IF b = <<>> THEN FALSE
    ELSE IF a = <<>> THEN TRUE
    ELSE IF Ord(Head(a)) # Ord(Head(b)) THEN Ord(Head(a)) < Ord(Head(b))
    ELSE StringLess(Tail(a), Tail(b))

\* The iteration order of std::map<std::string, ...>: ascending keys.
RECURSIVE MapOrder(_)
MapOrder(keys) ==
    IF keys = {} THEN <<>>
    ELSE LET first == CHOOSE k \in keys : \A o \in keys : o = k \/ StringLess(k, o)
         IN  <<first>> \o MapOrder(keys \ {first})

-----------------------------------------------------------------------------
(* Numbers *)

INT_MAX == 2147483647
INT_MIN == -INT_MAX - 1

is_number(ch) == ch \in Range(Str("0123456789"))

DigitVal(ch) == Ord(ch) - Ord("0")

\* std::atoi on a run of digits; -1 stands for "not representable in int".
RECURSIVE atoiDigits(_, _, _)
atoiDigits(str, i, acc) ==
    IF i > Len(str) THEN acc
    ELSE IF acc > (INT_MAX - DigitVal(str[i])) \div 10 THEN -1
    ELSE atoiDigits(str, i + 1, acc * 10 + DigitVal(str[i]))

\* atoi that stops after the first digit.
atoiOneDigit(str, ub) ==
    IF Len(str) > 0 /\ is_number(str[1]) THEN DigitVal(str[1]) ELSE 0

\* std::atoi: the value of the digits; undefined when it does not fit an
\* int, where the build returns whatever ub is.
atoi(str, ub) ==
    LET v == atoiDigits(str, 1, 0)
    IN  IF v = -1 THEN ub ELSE v

\* A float is kept as the decimal m / 10^e it was written as, normalised
\* (no trailing zero in the fraction).  This is exact for the decimals of
\* at most FLT_DIG = 6 significant digits, the only ones the model uses.
RECURSIVE NormFloat(_)
NormFloat(f) ==
    IF f.e > 0 /\ f.m % 10 = 0 THEN NormFloat([m |-> f.m \div 10, e |-> f.e - 1])
    ELSE f

\* std::atof on a run of digits and dots: digits, one dot, digits; it stops
\* at a second dot.
RECURSIVE atofDigits(_, _, _, _)
atofDigits(str, i, acc, dot) ==
    IF i > Len(str) THEN NormFloat(acc)
    ELSE IF str[i] = "." THEN
        IF dot THEN NormFloat(acc) ELSE atofDigits(str, i + 1, acc, TRUE)
    ELSE atofDigits(str, i + 1,
                    [m |-> acc.m * 10 + DigitVal(str[i]),
                     e |-> IF dot THEN acc.e + 1 ELSE acc.e], dot)

atof(str) == atofDigits(str, 1, [m |-> 0, e |-> 0], FALSE)

\* operator<<(int): decimal digits, '-' first when negative.
RECURSIVE NatChars(_)
NatChars(n) ==
    IF n < 10 THEN <<Chars[Ord("0") + n]>>
    ELSE NatChars(n \div 10) \o <<Chars[Ord("0") + (n % 10)]>>

RECURSIVE NegChars(_)
NegChars(n) ==
    LET d == (10 - (n % 10)) % 10
        rest == (n + d) \div 10
    IN  IF rest = 0 THEN <<Chars[Ord("0") + d]>>
        ELSE NegChars(rest) \o <<Chars[Ord("0") + d]>>

IntChars(n) == IF n < 0 THEN <<"-">> \o NegChars(n) ELSE NatChars(n)

RECURSIVE Pow10(_)
Pow10(e) == IF e = 0 THEN 1 ELSE 10 * Pow10(e - 1)

RECURSIVE FracChars(_, _)
FracChars(n, width) ==
    IF width = 0 THEN <<>>
    ELSE FracChars(n \div 10, width - 1) \o <<Chars[Ord("0") + (n % 10)]>>

\* operator<<(float): %g with precision 6; for the model's floats (between
\* 1e-4 and 1e6, at most 6 significant digits) that is the shortest fixed
\* notation: the integer part and, when there is a fraction, '.' and it.
FloatChars(f) ==
    NatChars(f.m \div Pow10(f.e))
    \o (IF f.e = 0 THEN <<>> ELSE <<".">> \o FracChars(f.m % Pow10(f.e), f.e))

-----------------------------------------------------------------------------
(* Nodes *)

NullNode == [type |-> "Null", value |-> 0, children |-> <<>>]
ObjectNode == [type |-> "Object", value |-> 0, children |-> <<>>]
ListNode == [type |-> "List", value |-> 0, children |-> <<>>]
ValueNode(T, v) == [type |-> T, value |-> v, children |-> <<>>]

LeafTypes == {"Bool", "Int", "Float", "String"}

\* ObjectNode::addOrEditChild: children[key] = child.
addOrEditChild(node, key, child) ==
    [node EXCEPT !.children =
        [k \in (DOMAIN @) \cup {key} |-> IF k = key THEN child ELSE @[k]]]

\* ListNode::addChild: children.push_back(child).
addChild(node, child) == [node EXCEPT !.children = Append(@, child)]

-----------------------------------------------------------------------------
(* Compact serializer *)

RECURSIVE dump(_, _)
RECURSIVE dumpObject(_, _, _)
RECURSIVE dumpList(_, _, _)

\* ObjectNode::dump's loop over children.begin()..end().
dumpObject(h, node, keys) ==
    IF keys = <<>> THEN <<>>
    ELSE <<Quote>> \o Head(keys) \o <<Quote, ":">>
         \o dump(h, node.children[Head(keys)])
         \o (IF Tail(keys) = <<>> THEN <<>> ELSE <<",">>)
         \o dumpObject(h, node, Tail(keys))

\* ListNode::dump's loop.
dumpList(h, node, i) ==
    IF i > Len(node.children) THEN <<>>
    ELSE dump(h, node.children[i])
         \o (IF i = Len(node.children) THEN <<>> ELSE <<",">>)
         \o dumpList(h, node, i + 1)

\* Node::dump, by the node's dynamic type.
dump(h, id) ==
    LET node == h[id]
    IN  CASE node.type = "Null"   -> Str("null")
          [] node.type = "Bool"   -> IF node.value THEN Str("true") ELSE Str("false")
          [] node.type = "Int"    -> IntChars(node.value)
          [] node.type = "Float"  -> FloatChars(node.value)
          [] node.type = "String" -> <<Quote>> \o node.value \o <<Quote>>
          [] node.type = "List"   -> <<"[">> \o dumpList(h, node, 1) \o <<"]">>
          [] node.type = "Object" ->
                <<"{">> \o dumpObject(h, node, MapOrder(DOMAIN node.children)) \o <<"}">>

-----------------------------------------------------------------------------
(* Parser *)
(* The parser works on c = [json, size, ub]: json is the memory holding    *)
(* the cleaned text, its terminating NUL (json[size] is defined), and the  *)
(* bytes that happen to follow it; size is json.size(); ub is what atoi    *)
(* returns on overflow.  The cursor state is s = [heap, index, hi], hi the *)
(* largest position read through json[index] so far.  A parse step returns *)
(* [st, heap, index, hi, node]; st is "ok" or how the parse ended:         *)
(*   "Malformed"     throw Malformed()          (json.cpp:165)             *)
(*   "Malformed*"    throw new Malformed()      (json.cpp:233)             *)
(*   "out_of_range"  std::string::substr with pos > size()                 *)
(*   "segv"          a read of memory that is not mapped                   *)

\* parse's first pass: drop whitespace outside double quotes.  The loop
\*     if (ch == '"') inside = !inside;
\*     if (std::isspace(ch) && !inside) continue;
\*     oss << ch;
\* over str[lo..hi], entered with the flag inside; the range is split in two
\* and the flag at the split is the flag flipped once per quote before it.
RECURSIVE Clean(_, _, _, _)
Clean(str, lo, hi, inside) ==
    IF lo > hi THEN <<>>
    ELSE IF lo = hi THEN
        LET now == IF str[lo] = Quote THEN ~inside ELSE inside
        IN  IF str[lo] \in {" ", "\t", "\n"} /\ ~now THEN <<>> ELSE <<str[lo]>>
    ELSE
        LET mid == (lo + hi) \div 2
            flips == Cardinality({i \in lo..mid : str[i] = Quote})
        IN  Clean(str, lo, mid, inside)
            \o Clean(str, mid + 1, hi, IF flips % 2 = 1 THEN ~inside ELSE inside)

\* Whether json[i] is memory at all, and the byte there (0-based).
Mapped(c, i) == i < Len(c.json)
At(c, i) == c.json[i + 1]

\* json.substr(pos, n), for pos <= size().
substr(c, pos, n) == SubSeq(c.json, pos + 1, Min(pos + n, c.size))

Seen(s, i) == [s EXCEPT !.hi = Max(@, i)]
Thrown(s, st) ==
    [st |-> st, heap |-> s.heap, index |-> s.index, hi |-> s.hi, node |-> 0]

\* Allocate the node and return it with the cursor at index.
Made(s, node, index) ==
    [st |-> "ok", heap |-> Append(s.heap, node), index |-> index, hi |-> s.hi,
     node |-> Len(s.heap) + 1]

\* while (json[index] != '"') out << json[index++];   (json.cpp:166, 227)
RECURSIVE readUntilQuote(_, _, _)
readUntilQuote(c, s, acc) ==
    IF ~Mapped(c, s.index) THEN [st |-> "segv", s |-> s, str |-> acc]
    ELSE IF At(c, s.index) = Quote
         THEN [st |-> "ok", s |-> Seen(s, s.index), str |-> acc]
    ELSE readUntilQuote(c, [Seen(s, s.index) EXCEPT !.index = @ + 1],
                        Append(acc, At(c, s.index)))

\* while (json[index] == '.' || is_number(json[index])) number << json[index++];
RECURSIVE readNumber(_, _, _)
readNumber(c, s, acc) ==
    IF At(c, s.index) = "." \/ is_number(At(c, s.index))
    THEN readNumber(c, [Seen(s, s.index) EXCEPT !.index = @ + 1],
                    Append(acc, At(c, s.index)))
    ELSE [s |-> Seen(s, s.index), str |-> acc]

parseValue(c, s) ==
    IF s.index > c.size THEN Thrown(s, "out_of_range")
    ELSE IF substr(c, s.index, 4) = Str("true")
         THEN Made(s, ValueNode("Bool", TRUE), s.index + 4)
    ELSE IF substr(c, s.index, 5) = Str("false")
         THEN Made(s, ValueNode("Bool", FALSE), s.index + 5)
    ELSE IF is_number(At(c, s.index)) THEN
        LET n == readNumber(c, s, <<>>)
        IN  IF "." \in Range(n.str)
            THEN Made(n.s, ValueNode("Float", atof(n.str)), n.s.index)
            ELSE Made(n.s, ValueNode("Int", atoi(n.str, c.ub)), n.s.index)
    ELSE IF At(c, s.index) = Quote THEN
        LET q == readUntilQuote(c, [Seen(s, s.index) EXCEPT !.index = @ + 1], <<>>)
        IN  IF q.st # "ok" THEN Thrown(q.s, q.st)
            ELSE Made(q.s, ValueNode("String", q.str), q.s.index + 1)
    ELSE Thrown([Seen(s, s.index) EXCEPT !.index = @ + 1], "Malformed*")

RECURSIVE parseRecursively(_, _)
RECURSIVE parseObjectLoop(_, _, _)
RECURSIVE parseListLoop(_, _, _)

\* parseObject's while (json[index] != '}') loop and what follows it.
parseObjectLoop(c, s, node) ==
    IF ~Mapped(c, s.index) THEN Thrown(s, "segv")
    ELSE IF At(c, s.index) = "}" THEN
        [st |-> "ok", heap |-> s.heap, index |-> s.index + 1,
         hi |-> Max(s.hi, s.index), node |-> node]
    ELSE IF At(c, s.index) # Quote THEN
        Thrown([Seen(s, s.index) EXCEPT !.index = @ + 1], "Malformed")
    ELSE
        LET k == readUntilQuote(c, [Seen(s, s.index) EXCEPT !.index = @ + 1], <<>>)
        IN  IF k.st # "ok" THEN Thrown(k.s, k.st)
            ELSE
            LET v == parseRecursively(c, [k.s EXCEPT !.index = @ + 2])
            IN  IF v.st # "ok" THEN v
                ELSE IF ~Mapped(c, v.index) THEN Thrown(v, "segv")
                ELSE parseObjectLoop(c,
                        [heap |-> [v.heap EXCEPT
                                     ![node] = addOrEditChild(@, k.str, v.node)],
                         index |-> IF At(c, v.index) # "}"
                                   THEN v.index + 1 ELSE v.index,
                         hi |-> Max(v.hi, v.index)],
                        node)

parseObject(c, s) ==
    parseObjectLoop(c, [s EXCEPT !.index = @ + 1, !.heap = Append(@, ObjectNode)],
                    Len(s.heap) + 1)

\* parseList's while (json[index] != ']') loop and what follows it.
parseListLoop(c, s, node) ==
    IF ~Mapped(c, s.index) THEN Thrown(s, "segv")
    ELSE IF At(c, s.index) = "]" THEN
        [st |-> "ok", heap |-> s.heap, index |-> s.index + 1,
         hi |-> Max(s.hi, s.index), node |-> node]
    ELSE
        LET v == parseRecursively(c, Seen(s, s.index))
        IN  IF v.st # "ok" THEN v
            ELSE IF ~Mapped(c, v.index) THEN Thrown(v, "segv")
            ELSE parseListLoop(c,
                    [heap |-> [v.heap EXCEPT ![node] = addChild(@, v.node)],
                     index |-> IF At(c, v.index) # "]"
                               THEN v.index + 1 ELSE v.index,
                     hi |-> Max(v.hi, v.index)],
                    node)

parseList(c, s) ==
    parseListLoop(c, [s EXCEPT !.index = @ + 1, !.heap = Append(@, ListNode)],
                  Len(s.heap) + 1)

parseRecursively(c, s) ==
    IF ~Mapped(c, s.index) THEN Thrown(s, "segv")
    ELSE CASE At(c, s.index) = "{" -> parseObject(c, Seen(s, s.index))
           [] At(c, s.index) = "[" -> parseList(c, Seen(s, s.index))
           [] OTHER -> parseValue(c, Seen(s, s.index))

\* parse(str): clean the text, then descend from index 0.  after is the
\* memory behind the buffer's NUL; h is the heap the nodes are made in.
parse(str, after, ub, h) ==
    LET str_clean == Clean(str, 1, Len(str), FALSE)
    IN  parseRecursively(
            [json |-> str_clean \o <<NUL>> \o after, size |-> Len(str_clean),
             ub |-> ub],
            [heap |-> h, index |-> 0, hi |-> 0])

-----------------------------------------------------------------------------
(* Handles and outcomes *)

\* A View variable: the node its shared_ptr points to (0: not constructed,
\* -1: constructed from memory past the end of a vector) and, for the
\* record, the subscripts that led to it from a Json.
NoView == [node |-> 0, path |-> <<>>]

KeyStep(key) == [key |-> key, idx |-> -1]
IdxStep(idx) == [key |-> <<>>, idx |-> idx]

\* The outcome of an operation: op names it, on is the node it was applied
\* to, arg its key, index or leaf type, path the subscripts behind the handle
\* it went through, st how it ended ("ok", "WrongType", a parser outcome,
\* or "segv"), what the detail, val the value it returned.
Outcome(op, on, arg, path, st, what, val) ==
    [op |-> op, on |-> on, arg |-> arg, path |-> path, st |-> st,
     what |-> what, val |-> val]

NoOutcome == Outcome("none", 0, 0, <<>>, "ok", "", 0)

\* WrongObjectType::NotLeaf<T>()
NotLeaf(T) == <<"NotLeaf", T>>

\* A process that took a segmentation fault runs no further.
Running == ret.st # "segv"

\* What the author of a file wrote: a leaf [k, v] (v the text of a number or
\* of a string, or a boolean), a list of documents, an object of <<key,
\* document>> pairs in the order written; NoDoc when the file is no document.
NoDoc == [k |-> "None", v |-> 0]

NoFile == [exists |-> FALSE, text |-> <<>>, doc |-> NoDoc, from |-> 0]

-----------------------------------------------------------------------------
(* Bounds and value domains of the model *)

MaxNodes == 3
MaxIdx == 1
MaxAfter == 1

Slots == {1, 2}

Keys == {Str("a"), Str("b"), Str("x")}

BoolVals == {TRUE, FALSE}
IntVals == {5, 6}
FloatVals == {[m |-> 2, e |-> 0], [m |-> 15, e |-> 1]}
StringVals == {Str("s")}

ValuesOf(T) ==
    CASE T = "Bool" -> BoolVals
      [] T = "Int" -> IntVals
      [] T = "Float" -> FloatVals
      [] T = "String" -> StringVals

RECURSIVE SeqsUpTo(_, _)
SeqsUpTo(S, n) ==
    IF n = 0 THEN {<<>>}
    ELSE LET shorter == SeqsUpTo(S, n - 1)
         IN  shorter \cup {Append(q, x) : q \in shorter, x \in S}

\* What may lie in memory behind a string's buffer.
AfterChars == {NUL, Quote, "]", "}"}

\* What atoi may return for a number that does not fit an int.
AtoiOverflow == {INT_MIN, -1, 0, INT_MAX}

\* Whether the heap of the model has room for one more node.
Room == Len(heap) < MaxNodes

-----------------------------------------------------------------------------
(* Construction *)

\* Json(T value): root(std::make_shared<ValueNode<T>>(value)).
JsonLeaf(T, value) ==
    /\ Running
    /\ heap' = Append(heap, ValueNode(T, value))
    /\ docs' = Append(docs, Len(heap) + 1)
    /\ ret' = Outcome("Json(T)", Len(heap) + 1, T, <<>>, "ok", "", value)
    /\ UNCHANGED <<views, input>>

\* The loop of Json(initializer_list<pair<string, Json>>): every pair's
\* value.root is put under its key, later pairs overwriting earlier ones.
RECURSIVE addPairs(_, _, _)
addPairs(node, list, i) ==
    IF i > Len(list) THEN node
    ELSE addPairs(addOrEditChild(node, list[i][1], docs[list[i][2]]), list, i + 1)

\* Json(std::initializer_list<std::pair<std::string, Json>> list)
JsonObject(list) ==
    /\ Running
    /\ heap' = Append(heap, addPairs(ObjectNode, list, 1))
    /\ docs' = Append(docs, Len(heap) + 1)
    /\ ret' = Outcome("Json{...}", Len(heap) + 1, 0, <<>>, "ok", "", 0)
    /\ UNCHANGED <<views, input>>

\* Json::array(list): every element's root is appended.
JsonArray(list) ==
    /\ Running
    /\ heap' = Append(heap, [ListNode EXCEPT
                                !.children = [i \in 1..Len(list) |-> docs[list[i]]]])
    /\ docs' = Append(docs, Len(heap) + 1)
    /\ ret' = Outcome("array", Len(heap) + 1, 0, <<>>, "ok", "", 0)
    /\ UNCHANGED <<views, input>>

\* Json::fromFile(filename): the file's text is parsed; the Json made holds
\* the root.  An exception leaves nothing behind.  val records the largest
\* position the cursor read.
fromFile ==
    /\ Running
    /\ IF ~input.exists
       THEN /\ ret' = Outcome("fromFile", 0, 0, <<>>, "runtime_error", "", 0)
            /\ UNCHANGED <<heap, docs>>
       ELSE \E after \in SeqsUpTo(AfterChars, MaxAfter), ub \in AtoiOverflow :
              LET r == parse(input.text, after, ub, heap)
              IN  IF r.st = "ok"
                  THEN /\ heap' = r.heap
                       /\ docs' = Append(docs, r.node)
                       /\ ret' = Outcome("fromFile", r.node, 0, <<>>, "ok", "", r.hi)
                  ELSE /\ ret' = Outcome("fromFile", 0, 0, <<>>, r.st, "", r.hi)
                       /\ UNCHANGED <<heap, docs>>
    /\ UNCHANGED <<views, input>>

-----------------------------------------------------------------------------
(* Navigation *)

\* operator[](std::string) without the find: the key is always inserted.
subscriptKeyAlwaysInserts(h, id, key) ==
    IF h[id].type # "Object"
    THEN [st |-> "WrongType", what |-> "NotObject", heap |-> h, node |-> 0]
    ELSE [st |-> "ok", what |-> "inserted",
          heap |-> Append([h EXCEPT ![id] = addOrEditChild(@, key, Len(h) + 1)],
                          NullNode),
          node |-> Len(h) + 1]

\* operator[](std::string) that makes an Object of a Null node it is
\* applied to.
subscriptKeyVivifies(h, id, key) ==
    IF h[id].type \notin {"Object", "Null"}
    THEN [st |-> "WrongType", what |-> "NotObject", heap |-> h, node |-> 0]
    ELSE IF h[id].type = "Null" \/ key \notin DOMAIN h[id].children
    THEN [st |-> "ok", what |-> "inserted",
          heap |-> Append([h EXCEPT ![id] = addOrEditChild(ObjectNode, key, Len(h) + 1)],
                          NullNode),
          node |-> Len(h) + 1]
    ELSE [st |-> "ok", what |-> "found", heap |-> h, node |-> h[id].children[key]]

\* The body shared by Json::operator[](std::string) and
\* Json::View::operator[](std::string), applied to node id.
subscriptKey(h, id, key) ==
    IF h[id].type # "Object"
    THEN [st |-> "WrongType", what |-> "NotObject", heap |-> h, node |-> 0]
    ELSE IF key \notin DOMAIN h[id].children
    THEN [st |-> "ok", what |-> "inserted",
          heap |-> Append([h EXCEPT ![id] = addOrEditChild(@, key, Len(h) + 1)],
                          NullNode),
          node |-> Len(h) + 1]
    ELSE [st |-> "ok", what |-> "found", heap |-> h, node |-> h[id].children[key]]

\* operator[](size_t) without the check of the node's kind.
subscriptIdxUnchecked(h, id, idx) ==
    IF h[id].type = "List" /\ idx < Len(h[id].children)
    THEN {[st |-> "ok", what |-> "found", heap |-> h, node |-> h[id].children[idx + 1]]}
    ELSE {[st |-> "segv", what |-> "", heap |-> h, node |-> 0],
          [st |-> "ok", what |-> "wild", heap |-> h, node |-> -1]}

\* The body shared by Json::operator[](size_t) and
\* Json::View::operator[](size_t): the outcomes it can have.  The vector is
\* indexed without a check; past its end the View is made from whatever is
\* there, or the process faults.
subscriptIdx(h, id, idx) ==
    IF h[id].type # "List"
    THEN {[st |-> "WrongType", what |-> "NotList", heap |-> h, node |-> 0]}
    ELSE IF idx < Len(h[id].children)
    THEN {[st |-> "ok", what |-> "found", heap |-> h, node |-> h[id].children[idx + 1]]}
    ELSE {[st |-> "segv", what |-> "", heap |-> h, node |-> 0],
          [st |-> "ok", what |-> "wild", heap |-> h, node |-> -1]}

\* The effect of a subscript with result r, the View it returns assigned to
\* the View variable w.
Subscripted(op, on, arg, path, r, w) ==
    /\ heap' = r.heap
    /\ views' = IF r.st = "ok"
                THEN [views EXCEPT ![w] = [node |-> r.node, path |-> Append(path, arg)]]
                ELSE views
    /\ ret' = Outcome(op, on, arg, path, r.st, r.what, r.node)
    /\ UNCHANGED <<docs, input>>

\* A View that was constructed from a node.
Bound(v) == views[v].node > 0

\* The use of a View made from memory past the end of a vector.
WildUse(op, v) ==
    /\ views[v].node = -1
    /\ ret' = Outcome(op, 0, 0, views[v].path, "segv", "", 0)
    /\ UNCHANGED <<heap, docs, views, input>>

\* Whether [key] on node id makes a node.
Inserts(id, key) ==
    heap[id].type = "Object" /\ key \notin DOMAIN heap[id].children

\* Json::operator[](std::string key)
JsonSubscriptKey(d, key, w) ==
    /\ Running
    /\ Subscripted("Json[key]", docs[d], KeyStep(key), <<>>,
                   subscriptKey(heap, docs[d], key), w)

\* Json::operator[](size_t idx)
JsonSubscriptIdx(d, idx, w) ==
    /\ Running
    /\ \E r \in subscriptIdx(heap, docs[d], idx) :
         Subscripted("Json[idx]", docs[d], IdxStep(idx), <<>>, r, w)

\* Json::View::operator[](std::string key)
ViewSubscriptKey(v, key, w) ==
    /\ Running
    /\ \/ /\ Bound(v)
          /\ Subscripted("View[key]", views[v].node, KeyStep(key), views[v].path,
                         subscriptKey(heap, views[v].node, key), w)
       \/ WildUse("View[key]", v)

\* Json::View::operator[](size_t idx)
ViewSubscriptIdx(v, idx, w) ==
    /\ Running
    /\ \/ /\ Bound(v)
          /\ \E r \in subscriptIdx(heap, views[v].node, idx) :
               Subscripted("View[idx]", views[v].node, IdxStep(idx), views[v].path,
                           r, w)
       \/ WildUse("View[idx]", v)

-----------------------------------------------------------------------------
(* Typed access *)

\* std::static_pointer_cast<ValueNode<T>>(node)->value(): the outcomes.  The
\* cast is unchecked; on a node that is no ValueNode<T> the read is of
\* whatever lies where a ValueNode<T> keeps value_, or the process faults.
asOutcomes(h, id, T) ==
    IF h[id].type = T
    THEN {[st |-> "ok", val |-> h[id].value]}
    ELSE {[st |-> "segv", val |-> 0]} \cup {[st |-> "ok", val |-> v] : v \in ValuesOf(T)}

\* operator=(T) that assigns to a copy of the node's value.
assignOutcomesToCopy(h, id, T, value) ==
    IF h[id].type = T
    THEN {[st |-> "ok", heap |-> h]}
    ELSE {[st |-> "segv", heap |-> h], [st |-> "ok", heap |-> h]}

\* *std::static_pointer_cast<ValueNode<T>>(node) = value: the outcomes.  On
\* a node that is no ValueNode<T> the store goes where a ValueNode<T> keeps
\* value_: into padding (nothing to see), over the node's own value, or the
\* process faults.  Node::type_ is const and lies before it.
assignOutcomes(h, id, T, value) ==
    IF h[id].type = T
    THEN {[st |-> "ok", heap |-> [h EXCEPT ![id].value = value]]}
    ELSE {[st |-> "segv", heap |-> h], [st |-> "ok", heap |-> h]}
         \cup (IF h[id].type \in LeafTypes
               THEN {[st |-> "ok", heap |-> [h EXCEPT ![id].value = v]] :
                        v \in ValuesOf(h[id].type)}
               ELSE {})

\* Json::View::operator=(T value)
ViewAssign(v, T, value) ==
    /\ Running
    /\ \/ /\ Bound(v)
          /\ \E r \in assignOutcomes(heap, views[v].node, T, value) :
                /\ heap' = r.heap
                /\ ret' = Outcome("View=", views[v].node, T, views[v].path,
                                  r.st, "", value)
          /\ UNCHANGED <<docs, views, input>>
       \/ WildUse("View=", v)

\* Json::View::as<T>()
ViewAs(v, T) ==
    /\ Running
    /\ \/ /\ Bound(v)
          /\ \E r \in asOutcomes(heap, views[v].node, T) :
                ret' = Outcome("View.as", views[v].node, T, views[v].path,
                               r.st, "", r.val)
          /\ UNCHANGED <<heap, docs, views, input>>
       \/ WildUse("View.as", v)

\* Json::as<T>()
JsonAs(d, T) ==
    /\ Running
    /\ \E r \in asOutcomes(heap, docs[d], T) :
          ret' = Outcome("Json.as", docs[d], T, <<>>, r.st, "", r.val)
    /\ UNCHANGED <<heap, docs, views, input>>

\* Json::dump(os): the text goes to the stream; when the stream is a file,
\* the file then holds it.
JsonDump(d, toFile) ==
    /\ Running
    /\ ret' = Outcome("dump", docs[d], 0, <<>>, "ok", "", dump(heap, docs[d]))
    /\ input' = IF toFile
                THEN [exists |-> TRUE, text |-> dump(heap, docs[d]),
                      doc |-> NoDoc, from |-> d]
                ELSE input
    /\ UNCHANGED <<heap, docs, views>>

-----------------------------------------------------------------------------
(* Files: documents as their author wrote them, and their text *)

DString(chars) == [k |-> "String", v |-> chars]
DInt(digits) == [k |-> "Int", v |-> digits]
DFloat(chars) == [k |-> "Float", v |-> chars]
DBool(b) == [k |-> "Bool", v |-> b]
DList(items) == [k |-> "List", v |-> items]
DObject(pairs) == [k |-> "Object", v |-> pairs]

\* The text of a document, sp written around every separator.
RECURSIVE Render(_, _)
RECURSIVE RenderItems(_, _, _)
RECURSIVE RenderPairs(_, _, _)
RenderItems(items, i, sp) ==
    IF i > Len(items) THEN <<>>
    ELSE Render(items[i], sp)
         \o (IF i = Len(items) THEN <<>> ELSE <<",">> \o sp)
         \o RenderItems(items, i + 1, sp)
RenderPairs(pairs, i, sp) ==
    IF i > Len(pairs) THEN <<>>
    ELSE <<Quote>> \o pairs[i][1] \o <<Quote>> \o sp \o <<":">> \o sp
         \o Render(pairs[i][2], sp)
         \o (IF i = Len(pairs) THEN <<>> ELSE <<",">> \o sp)
         \o RenderPairs(pairs, i + 1, sp)
Render(doc, sp) ==
    CASE doc.k = "String" -> <<Quote>> \o doc.v \o <<Quote>>
      [] doc.k \in {"Int", "Float"} -> doc.v
      [] doc.k = "Bool" -> IF doc.v THEN Str("true") ELSE Str("false")
      [] doc.k = "List" -> <<"[">> \o sp \o RenderItems(doc.v, 1, sp) \o sp \o <<"]">>
      [] doc.k = "Object" -> <<"{">> \o sp \o RenderPairs(doc.v, 1, sp) \o sp \o <<"}">>

File(doc, sp) == [exists |-> TRUE, text |-> Render(doc, sp), doc |-> doc, from |-> 0]
Junk(text) == [exists |-> TRUE, text |-> text, doc |-> NoDoc, from |-> 0]

\* The documents at the end of path in doc: one for each way to follow it
\* (an object that writes a key twice has two).
RECURSIVE DocAt(_, _)
DocAt(doc, path) ==
    IF path = <<>> THEN {doc}
    ELSE LET step == Head(path)
         IN  IF step.idx >= 0
             THEN IF doc.k = "List" /\ step.idx < Len(doc.v)
                  THEN DocAt(doc.v[step.idx + 1], Tail(path))
                  ELSE {}
             ELSE IF doc.k = "Object"
                  THEN UNION {DocAt(doc.v[i][2], Tail(path)) :
                                i \in {j \in DOMAIN doc.v : doc.v[j][1] = step.key}}
                  ELSE {}

\* Every object of doc writes each of its keys once.
RECURSIVE UniqueKeys(_)
UniqueKeys(doc) ==
    CASE doc.k = "List" -> \A i \in DOMAIN doc.v : UniqueKeys(doc.v[i])
      [] doc.k = "Object" ->
            /\ \A i, j \in DOMAIN doc.v : doc.v[i][1] = doc.v[j][1] => i = j
            /\ \A i \in DOMAIN doc.v : UniqueKeys(doc.v[i][2])
      [] OTHER -> TRUE

\* Every integer of doc fits an int.
RECURSIVE IntsFit(_)
IntsFit(doc) ==
    CASE doc.k = "List" -> \A i \in DOMAIN doc.v : IntsFit(doc.v[i])
      [] doc.k = "Object" -> \A i \in DOMAIN doc.v : IntsFit(doc.v[i][2])
      [] doc.k = "Int" -> atoiDigits(doc.v, 1, 0) # -1
      [] OTHER -> TRUE

\* The sample document of the tests (tests/sample.json, read by get()).
SampleDoc ==
    DObject(<<
        <<Str("name"), DString(Str("Jane"))>>,
        <<Str("age"), DInt(Str("24"))>>,
        <<Str("student"), DBool(TRUE)>>,
        <<Str("friends"), DList(<<
            DString(Str("Bob")),
            DObject(<<
                <<Str("name"), DString(Str("John"))>>,
                <<Str("age"), DInt(Str("25"))>>,
                <<Str("student"), DBool(FALSE)>>,
                <<Str("money"), DFloat(Str("100.34"))>> >>) >>)>> >>)

SampleText ==
    Str("{\"name\":\"Jane\",\"age\":24,\"student\":true,\"friends\":[\"Bob\",{\"name\":\"John\",\"age\":25,\"student\":false,\"money\":100.34}]}")

-----------------------------------------------------------------------------
(* Spec: a program that loads a small document, then navigates, reads,     *)
(* writes and serializes it through one Json and two View variables.       *)

TreeFiles ==
    {File(doc, <<>>) : doc \in {
        DObject(<<>>),
        DObject(<< <<Str("x"), DInt(Str("5"))>> >>),
        DObject(<< <<Str("a"), DObject(<<>>)>>, <<Str("x"), DString(Str("s"))>> >>),
        DList(<<DBool(TRUE), DFloat(Str("1.5"))>>),
        DList(<< DObject(<< <<Str("a"), DInt(Str("6"))>> >>) >>),
        DInt(Str("5")) }}

InitFrom(files) ==
    /\ heap = <<>>
    /\ docs = <<>>
    /\ views = [w \in Slots |-> NoView]
    /\ ret = NoOutcome
    /\ input \in files

\* The program's first call: the document is loaded once.
LoadOnce == ret.op = "none" /\ fromFile

Init == InitFrom(TreeFiles)

Next ==
    \/ LoadOnce
    \/ \E d \in 1..Len(docs), key \in Keys, w \in Slots : JsonSubscriptKey(d, key, w)
    \/ \E d \in 1..Len(docs), idx \in 0..MaxIdx, w \in Slots : JsonSubscriptIdx(d, idx, w)
    \/ \E v \in Slots, key \in Keys, w \in Slots : ViewSubscriptKey(v, key, w)
    \/ \E v \in Slots, idx \in 0..MaxIdx, w \in Slots : ViewSubscriptIdx(v, idx, w)
    \/ \E v \in Slots, T \in LeafTypes : \E value \in ValuesOf(T) : ViewAssign(v, T, value)
    \/ \E v \in Slots, T \in LeafTypes : ViewAs(v, T)
    \/ \E d \in 1..Len(docs), T \in LeafTypes : JsonAs(d, T)
    \/ \E d \in 1..Len(docs) : JsonDump(d, FALSE)

Spec == Init /\ [][Next]_vars

-----------------------------------------------------------------------------
(* SpecParse: a program that loads one file, well-formed or not, and reads *)
(* the document through the Json and one View variable.                    *)

\* How a file's author may space it.
Spacings == {<<>>, <<" ">>}

\* Small documents of the grammar's leaves and containers.
GrammarDocs ==
    { DInt(Str("24")),
      DString(Str("a b")),
      DList(<<>>),
      DList(<<DString(Str("x")), DInt(Str("0")), DBool(FALSE)>>),
      DObject(<< <<Str("x"), DList(<<DInt(Str("12")), DBool(TRUE)>>)>>,
                 <<Str("a"), DObject(<< <<Str("x"), DString(Str(""))>> >>)>> >>) }

\* Integers at and past the largest int.
BigIntDoc == DList(<<DInt(Str("2147483647")), DInt(Str("2147483648"))>>)

\* An object that writes a key twice.
TwiceDoc == DObject(<< <<Str("a"), DInt(Str("1"))>>, <<Str("a"), DInt(Str("2"))>> >>)

WellFormedFiles ==
    {File(doc, sp) : doc \in GrammarDocs \cup {SampleDoc, BigIntDoc, TwiceDoc},
                     sp \in Spacings}
    \cup {[exists |-> TRUE, text |-> SampleText, doc |-> SampleDoc, from |-> 0]}

\* Texts that bring parseValue to a character that starts no scalar.
BadScalarFiles ==
    {Junk(Str(text)) : text \in {"{\"a\":}", "nul", "[x]", "-5", "[1,]"}}

\* Texts whose object key opens with no quote.
BadKeyFiles == {Junk(Str(text)) : text \in {"{a}", "{\"a\":1,b}"}}

\* Texts that never close a container, a key or a string, and the empty text.
UnterminatedFiles ==
    {Junk(Str(text)) : text \in {"[1,2", "{\"a\":1", "\"abc", "{\"a"}}
EmptyFile == Junk(<<>>)

ParseFiles ==
    WellFormedFiles \cup BadScalarFiles \cup BadKeyFiles \cup UnterminatedFiles
    \cup {EmptyFile, NoFile}

ParseKeys == {Str(key) : key \in {"a", "x", "name", "age", "student", "friends", "money"}}

InitParse == InitFrom(ParseFiles)

NextParse ==
    \/ LoadOnce
    \/ \E d \in 1..Len(docs), key \in ParseKeys :
          /\ Inserts(docs[d], key) => Room
          /\ JsonSubscriptKey(d, key, 1)
    \/ \E d \in 1..Len(docs), idx \in 0..MaxIdx : JsonSubscriptIdx(d, idx, 1)
    \/ \E key \in ParseKeys :
          /\ (Bound(1) /\ Inserts(views[1].node, key)) => Room
          /\ ViewSubscriptKey(1, key, 1)
    \/ \E idx \in 0..MaxIdx : ViewSubscriptIdx(1, idx, 1)
    \/ \E T \in LeafTypes : ViewAs(1, T)
    \/ \E d \in 1..Len(docs), T \in LeafTypes : JsonAs(d, T)

SpecParse == InitParse /\ [][NextParse]_vars

-----------------------------------------------------------------------------
(* SpecBuild: a program that builds documents with the constructors,       *)
(* navigates and assigns through one View variable, writes one document to *)
(* a file and then loads the file back.                                    *)

\* Nothing is written yet: the program is still building.
Building == ~input.exists

\* The nodes the program builds before it writes the file.
MaxBuilt == 2
BuildRoom == Building /\ Len(heap) < MaxBuilt

InitBuild == InitFrom({NoFile})

Load ==
    /\ Len(heap) <= MaxBuilt
    /\ fromFile

NextBuild ==
    \/ \E T \in LeafTypes : \E value \in ValuesOf(T) :
          BuildRoom /\ JsonLeaf(T, value)
    \/ \E list \in SeqsUpTo(Keys \X (1..Len(docs)), 2) :
          BuildRoom /\ JsonObject(list)
    \/ \E list \in SeqsUpTo(1..Len(docs), 2) :
          BuildRoom /\ JsonArray(list)
    \/ \E d \in 1..Len(docs), key \in Keys :
          /\ Inserts(docs[d], key) => BuildRoom
          /\ JsonSubscriptKey(d, key, 1)
    \/ \E d \in 1..Len(docs), idx \in 0..MaxIdx : JsonSubscriptIdx(d, idx, 1)
    \/ \E key \in Keys :
          /\ (Bound(1) /\ Inserts(views[1].node, key)) => BuildRoom
          /\ ViewSubscriptKey(1, key, 1)
    \/ \E idx \in 0..MaxIdx : ViewSubscriptIdx(1, idx, 1)
    \/ \E T \in LeafTypes : \E value \in ValuesOf(T) : ViewAssign(1, T, value)
    \/ \E T \in LeafTypes : ViewAs(1, T)
    \/ \E d \in 1..Len(docs) : Building /\ JsonDump(d, TRUE)
    \/ Load

SpecBuild == InitBuild /\ [][NextBuild]_vars

-----------------------------------------------------------------------------
(* Claims about navigation and typed access, under Spec *)

KeySubscript(op) == op \in {"Json[key]", "View[key]"}
IdxSubscript(op) == op \in {"Json[idx]", "View[idx]"}
TypedRead(op) == op \in {"Json.as", "View.as"}

\* C2: [key] on an Object node, through the Json or through a View.  If the
\* key is present the heap is unchanged and the View returned is bound to
\* the existing child.  If it is absent, the object afterwards holds its
\* previous entries plus key -> a new Null node, the View returned is bound
\* to that node, and every other node is as it was.
C2_KeyOnObject ==
    [][ (KeySubscript(ret'.op) /\ ret'.on > 0 /\ heap[ret'.on].type = "Object") =>
          LET on == ret'.on
              key == ret'.arg.key
              old == heap[on].children
          IN  /\ ret'.st = "ok"
              /\ \E w \in Slots :
                    /\ views'[w].node = ret'.val
                    /\ \A u \in Slots \ {w} : views'[u] = views[u]
              /\ docs' = docs
              /\ IF key \in DOMAIN old
                 THEN heap' = heap /\ ret'.val = old[key]
                 ELSE /\ Len(heap') = Len(heap) + 1
                      /\ ret'.val = Len(heap) + 1
                      /\ heap'[ret'.val] = NullNode
                      /\ heap'[on].type = "Object"
                      /\ DOMAIN heap'[on].children = (DOMAIN old) \cup {key}
                      /\ heap'[on].children[key] = ret'.val
                      /\ \A k \in DOMAIN old : heap'[on].children[k] = old[k]
                      /\ \A id \in (DOMAIN heap) \ {on} : heap'[id] = heap[id]
      ]_vars

\* C2's case: a View's [key] has inserted a Null node into an object that
\* had an entry, in a tree of other nodes.
C2_Witness ==
    /\ ret.op = "View[key]"
    /\ ret.what = "inserted"
    /\ heap[ret.val] = NullNode
    /\ Cardinality(DOMAIN heap[ret.on].children) = 2
    /\ \E w \in Slots : views[w].node = ret.val

\* C6: [key] on a node that is no Object fails with WrongType(NotObject),
\* [idx] on a node that is no List fails with WrongType(NotList), for the
\* Json and for a View alike, and neither changes anything.
C6_WrongKindNavigation ==
    [][ /\ (KeySubscript(ret'.op) /\ ret'.on > 0 /\ heap[ret'.on].type # "Object") =>
              /\ ret'.st = "WrongType" /\ ret'.what = "NotObject"
              /\ heap' = heap /\ views' = views /\ docs' = docs
        /\ (IdxSubscript(ret'.op) /\ ret'.on > 0 /\ heap[ret'.on].type # "List") =>
              /\ ret'.st = "WrongType" /\ ret'.what = "NotList"
              /\ heap' = heap /\ views' = views /\ docs' = docs
      ]_vars

\* C6's case: [key] through a View bound to a Null node has failed.
C6_Witness ==
    /\ ret.op = "View[key]"
    /\ ret.st = "WrongType"
    /\ ret.what = "NotObject"
    /\ heap[ret.on].type = "Null"

\* The step root["a"]["b"] on the document loaded from {} , taken right
\* after root["a"]: the root's only entry is "a".
ChainedStep ==
    /\ input.doc = DObject(<<>>)
    /\ ret'.op = "View[key]"
    /\ ret'.path = <<KeyStep(Str("a"))>>
    /\ ret'.arg = KeyStep(Str("b"))
    /\ DOMAIN heap[docs[1]].children = {Str("a")}

\* C3 as the spec states it: on an empty Object root, root["a"]["b"]
\* completes and the document then serializes to {"a":{"b":null}}.
C3_Original ==
    [][ ChainedStep =>
          /\ ret'.st = "ok"
          /\ dump(heap', docs[1]) = Str("{\"a\":{\"b\":null}}")
      ]_vars

\* C3 amended: on an empty Object root, root["a"] inserts a Null node and
\* the ["b"] that follows fails with WrongType(NotObject), changing nothing:
\* the document then serializes to {"a":null}.
C3_ChainedKeyFails ==
    [][ ChainedStep =>
          /\ ret'.st = "WrongType" /\ ret'.what = "NotObject"
          /\ heap[ret'.on] = NullNode
          /\ heap' = heap
          /\ dump(heap', docs[1]) = Str("{\"a\":null}")
      ]_vars

\* C3's case: root["a"]["b"] has been evaluated on the document {}.
C3_Witness ==
    /\ input.doc = DObject(<<>>)
    /\ ret.op = "View[key]"
    /\ ret.path = <<KeyStep(Str("a"))>>
    /\ ret.arg = KeyStep(Str("b"))
    /\ DOMAIN heap[docs[1]].children = {Str("a")}
    /\ dump(heap, docs[1]) = Str("{\"a\":null}")

\* C4 as the spec states it: as<T>() and a typed assignment of a T, on a
\* node whose kind is not T's, fail with WrongType(NotLeaf(T)).
C4_MismatchRejected ==
    (/\ TypedRead(ret.op) \/ ret.op = "View="
     /\ ret.on > 0
     /\ heap[ret.on].type # ret.arg)
    => (ret.st = "WrongType" /\ ret.what = NotLeaf(ret.arg))

Contains(text, part) ==
    \E i \in 1..(Len(text) - Len(part) + 1) : SubSeq(text, i, i + Len(part) - 1) = part

-----------------------------------------------------------------------------
(* Claims about the parser, under SpecParse *)

\* Whether val, read as its own kind, is what leaf's text says.
Written(leaf, val) ==
    CASE leaf.k = "Int" -> IntChars(val) = leaf.v
      [] OTHER -> val = leaf.v

\* A typed read of the grammar's kind T at the end of a path of subscripts.
ReadAlong(path, T) == TypedRead(ret.op) /\ ret.on > 0 /\ ret.path = path /\ ret.arg = T

\* The file parses, and every read of a String, Int or Bool leaf of the
\* document along its path, as its own kind, returns what the text says.
ReadsWhatIsWritten ==
    /\ ret.op = "fromFile" => ret.st = "ok"
    /\ (TypedRead(ret.op) /\ ret.on > 0 /\ ret.arg \in {"String", "Int", "Bool"}) =>
          \A leaf \in DocAt(input.doc, ret.path) :
             leaf.k = ret.arg => (ret.st = "ok" /\ Written(leaf, ret.val))

FriendsAt(idx) == <<KeyStep(Str("friends")), IdxStep(idx)>>

\* The reads of get() on the sample document.
SampleReads ==
    input.doc = SampleDoc =>
       /\ ReadAlong(<<KeyStep(Str("name"))>>, "String") => ret.val = Str("Jane")
       /\ ReadAlong(<<KeyStep(Str("age"))>>, "Int") => ret.val = 24
       /\ ReadAlong(<<KeyStep(Str("student"))>>, "Bool") => ret.val = TRUE
       /\ ReadAlong(FriendsAt(0), "String") => ret.val = Str("Bob")
       /\ ReadAlong(Append(FriendsAt(1), KeyStep(Str("name"))), "String") =>
             ret.val = Str("John")
       /\ ReadAlong(Append(FriendsAt(1), KeyStep(Str("age"))), "Int") => ret.val = 25
       /\ ReadAlong(Append(FriendsAt(1), KeyStep(Str("student"))), "Bool") =>
             ret.val = FALSE

\* C1 as the spec states it: for every well-formed document, parsing it,
\* navigating along the path of a leaf and reading it as its own kind
\* returns the value written there; the sample reads as get() expects.
C1_Original ==
    /\ input \in WellFormedFiles => ReadsWhatIsWritten
    /\ SampleReads

\* C1 amended: the same, for the well-formed documents whose objects write
\* each key once and whose integers are at most 2147483647.
C1_ReadsWhatIsWritten ==
    /\ (input \in WellFormedFiles /\ UniqueKeys(input.doc) /\ IntsFit(input.doc)) =>
          ReadsWhatIsWritten
    /\ SampleReads

\* C1's case: the sample, spaced, has been parsed and
\* root["friends"][1]["age"] read as 25.
C1_Witness ==
    /\ input = File(SampleDoc, <<" ">>)
    /\ ret.op = "View.as" /\ ret.st = "ok"
    /\ ret.path = Append(FriendsAt(1), KeyStep(Str("age")))
    /\ ret.arg = "Int" /\ ret.val = 25

\* C7 as the spec states it: a text that brings the scalar parser to a
\* character that starts no scalar ends the parse with Malformed, as a key
\* that opens with no quote does, and no tree is returned.
C7_ScalarMalformed ==
    (ret.op = "fromFile" /\ input \in BadScalarFiles \cup BadKeyFiles) =>
       (ret.st = "Malformed" /\ docs = <<>> /\ heap = <<>>)

\* The whitespace-stripped buffer of the file.
Stripped == Clean(input.text, 1, Len(input.text), FALSE)

\* C8 as the spec states it: on every input the parse ends, the cursor
\* reads no position beyond the end of the whitespace-stripped buffer, and
\* an unterminated container, key or string ends the parse with Malformed.
C8_StaysInBuffer ==
    (ret.op = "fromFile" /\ input.exists) =>
       /\ ret.st # "segv"
       /\ ret.val <= Len(Stripped)
       /\ input \in UnterminatedFiles => ret.st = "Malformed"

-----------------------------------------------------------------------------
(* Claims about building, writing and loading back, under SpecBuild *)

\* The trees under a and b have the same kind and the same leaf value at
\* every position, object entries compared by key.
RECURSIVE SameTree(_, _, _)
SameTree(h, a, b) ==
    /\ h[a].type = h[b].type
    /\ CASE h[a].type = "Object" ->
              /\ DOMAIN h[a].children = DOMAIN h[b].children
              /\ \A key \in DOMAIN h[a].children :
                    SameTree(h, h[a].children[key], h[b].children[key])
         [] h[a].type = "List" ->
              /\ Len(h[a].children) = Len(h[b].children)
              /\ \A i \in DOMAIN h[a].children :
                    SameTree(h, h[a].children[i], h[b].children[i])
         [] OTHER -> h[a].value = h[b].value

\* C9 as the spec states it: the compact serialization of a tree built
\* without the parser parses, to a tree of the same kinds and leaf values.
C9_RoundTrip ==
    (/\ ret.op = "fromFile"
     /\ input.from > 0
     /\ dump(heap, docs[input.from]) = input.text)
    => (ret.st = "ok" /\ SameTree(heap, docs[input.from], ret.on))

\* C10 as the spec states it: each node is the child of at most one slot
\* (one key of one Object, one index of one List).
C10_ExclusiveOwnership ==
    \A p, q \in DOMAIN heap :
       \A k \in DOMAIN heap[p].children : \A l \in DOMAIN heap[q].children :
          heap[p].children[k] = heap[q].children[l] => (p = q /\ k = l)

=============================================================================
